---- MODULE Spec2Model ----
(***************************************************************************)
(* zodenv: schema-driven coercion of a flat environment mapping            *)
(* (src/main.ts).  The model covers the value transformers of `transform`, *)
(* the field schemas of `schema`, the object parse that `parse` delegates  *)
(* to (schema.parse(env)) and the getter that `parse` returns.             *)
(*                                                                         *)
(* Strings are sequences of one-character strings, so that splitting,      *)
(* trimming, quote stripping and Number.parseInt are computed character by *)
(* character.  Every JavaScript value is a record [t, s, n, items]:        *)
(*   t = "str"   s = the characters                                        *)
(*   t = "num"   n = the (integer) number                                  *)
(*   t = "nan"   the number NaN                                            *)
(*   t = "bool"  n = 1 for true, 0 for false                               *)
(*   t = "arr"   items = the elements, each such a record                  *)
(*   t = "undef" undefined                                                 *)
(*   t = "null"  null                                                      *)
(*   t = "obj"   items = the entries; an entry is a value with its key in k *)
(***************************************************************************)
EXTENDS Integers, Sequences, FiniteSets, TLC

VARIABLES
    schema,     \* the shape given to schema.config: a sequence of field schemas
    env,        \* the input mapping handed to parse
    pc,         \* "start" | "parsed" | "failed" | "got"
    parsedEnv,  \* the object returned by schema.parse(env)
    thrown,     \* the issues of the ZodError that parse threw
    calls,      \* how many times a transformer of `transform` has been entered
    lastKey,    \* the key of the last getter call
    got,        \* what the last getter call returned
    tKind,      \* transformer under test
    tRaw,       \* the raw value given to it
    tVia,       \* "none" | "transform" | "schema"
    tOut        \* its outcome

vars == <<schema, env, pc, parsedEnv, thrown, calls, lastKey, got,
          tKind, tRaw, tVia, tOut>>

----------------------------------------------------------------------------
(* Bounds of the model *)

MaxFields == 2      \* fields of a schema
MaxLen == 3         \* length of the exhaustively enumerated raw strings
MaxItems == 2       \* elements of an array inside a JSON value

----------------------------------------------------------------------------
(* JavaScript values *)

Str(chars) == [t |-> "str", s |-> chars, n |-> 0, items |-> <<>>, k |-> <<>>]
Num(j) == [t |-> "num", s |-> <<>>, n |-> j, items |-> <<>>, k |-> <<>>]
NaN == [t |-> "nan", s |-> <<>>, n |-> 0, items |-> <<>>, k |-> <<>>]
Bool(b) == [t |-> "bool", s |-> <<>>, n |-> IF b THEN 1 ELSE 0, items |-> <<>>, k |-> <<>>]
Arr(elems) == [t |-> "arr", s |-> <<>>, n |-> 0, items |-> elems, k |-> <<>>]
Undefined == [t |-> "undef", s |-> <<>>, n |-> 0, items |-> <<>>, k |-> <<>>]
Null == [t |-> "null", s |-> <<>>, n |-> 0, items |-> <<>>, k |-> <<>>]

\* an object: its entries in insertion order, each a value that carries its key
Entry(key, v) == [v EXCEPT !.k = key]
Obj(entries) == [t |-> "obj", s |-> <<>>, n |-> 0, items |-> entries, k |-> <<>>]
Keys(o) == {o.items[i].k : i \in 1..Len(o.items)}
Member(o, key) ==
    LET i == CHOOSE j \in 1..Len(o.items) : o.items[j].k = key
    IN  Entry(<<>>, o.items[i])

\* obj[key] = v: a new key goes last, a known key keeps its place
SetMember(o, key, v) ==
    IF key \in Keys(o)
    THEN Obj([i \in 1..Len(o.items) |->
                IF o.items[i].k = key THEN Entry(key, v) ELSE o.items[i]])
    ELSE Obj(Append(o.items, Entry(key, v)))

\* typeof-like tag that zod reports as `received`
TypeOf(v) == CASE v.t = "str" -> "string"
               [] v.t = "num" -> "number"
               [] v.t = "nan" -> "nan"
               [] v.t = "bool" -> "boolean"
               [] v.t = "arr" -> "array"
               [] v.t = "null" -> "null"
               [] v.t = "obj" -> "object"
               [] OTHER -> "undefined"

----------------------------------------------------------------------------
(* Characters *)

DigitChars == {"0", "1", "2", "3", "4", "5", "6", "7", "8", "9"}
LowerChars == {"a", "b", "c", "d", "e", "f", "g", "h", "i", "j", "k", "l", "m",
               "n", "o", "p", "q", "r", "s", "t", "u", "v", "w", "x", "y", "z"}
UpperChars == {"A", "B", "C", "D", "E", "F", "G", "H", "I", "J", "K", "L", "M",
               "N", "O", "P", "Q", "R", "S", "T", "U", "V", "W", "X", "Y", "Z"}
LetterChars == LowerChars \cup UpperChars
WhiteSpace == {" ", "\t", "\n"}

DigitVal(c) == CASE c = "0" -> 0 [] c = "1" -> 1 [] c = "2" -> 2 [] c = "3" -> 3
                 [] c = "4" -> 4 [] c = "5" -> 5 [] c = "6" -> 6 [] c = "7" -> 7
                 [] c = "8" -> 8 [] c = "9" -> 9
                 [] c \in {"a", "A"} -> 10 [] c \in {"b", "B"} -> 11
                 [] c \in {"c", "C"} -> 12 [] c \in {"d", "D"} -> 13
                 [] c \in {"e", "E"} -> 14 [] c \in {"f", "F"} -> 15
                 [] OTHER -> 99

DigitChar(d) == CASE d = 0 -> "0" [] d = 1 -> "1" [] d = 2 -> "2" [] d = 3 -> "3"
                  [] d = 4 -> "4" [] d = 5 -> "5" [] d = 6 -> "6" [] d = 7 -> "7"
                  [] d = 8 -> "8" [] OTHER -> "9"

----------------------------------------------------------------------------
(* String operations of the JavaScript runtime *)

RECURSIVE TrimStart(_)
TrimStart(s) ==
    IF s # <<>> /\ Head(s) \in WhiteSpace THEN TrimStart(Tail(s)) ELSE s

RECURSIVE TrimEnd(_)
TrimEnd(s) ==
    IF s # <<>> /\ s[Len(s)] \in WhiteSpace
    THEN TrimEnd(SubSeq(s, 1, Len(s) - 1))
    ELSE s

\* String.prototype.trim
Trim(s) == TrimEnd(TrimStart(s))

\* String.prototype.replaceAll(ch, "")
ReplaceAll(s, ch) == SelectSeq(s, LAMBDA c : c # ch)

\* String.prototype.split(ch): one piece more than there are separators
RECURSIVE SplitFrom(_, _, _)
SplitFrom(s, ch, cur) ==
    IF s = <<>> THEN <<cur>>
    ELSE IF Head(s) = ch THEN <<cur>> \o SplitFrom(Tail(s), ch, <<>>)
    ELSE SplitFrom(Tail(s), ch, Append(cur, Head(s)))

Split(s, ch) == SplitFrom(s, ch, <<>>)

\* the longest prefix of s made of digits of the radix, as a number; -1 if empty
RECURSIVE DigitsPrefix(_, _, _, _)
DigitsPrefix(s, radix, acc, seen) ==
    IF s # <<>> /\ DigitVal(Head(s)) < radix
    THEN DigitsPrefix(Tail(s), radix, acc * radix + DigitVal(Head(s)), TRUE)
    ELSE IF seen THEN acc ELSE -1

\* Number.parseInt(string) with no radix argument
ParseInt(s) ==
    LET s1 == TrimStart(s)
        neg == s1 # <<>> /\ Head(s1) = "-"
        s2 == IF s1 # <<>> /\ Head(s1) \in {"-", "+"} THEN Tail(s1) ELSE s1
        hex == Len(s2) >= 2 /\ s2[1] = "0" /\ s2[2] \in {"x", "X"}
        mag == IF hex THEN DigitsPrefix(Tail(Tail(s2)), 16, 0, FALSE)
                      ELSE DigitsPrefix(s2, 10, 0, FALSE)
    IN  IF mag < 0 THEN NaN ELSE Num(IF neg THEN 0 - mag ELSE mag)

RECURSIVE NatToString(_)
NatToString(k) ==
    IF k < 10 THEN <<DigitChar(k)>>
    ELSE Append(NatToString(k \div 10), DigitChar(k % 10))

\* value.toString() of a string or an integer number
toString(v) ==
    IF v.t = "str" THEN v.s
    ELSE IF v.n < 0 THEN <<"-">> \o NatToString(0 - v.n)
    ELSE NatToString(v.n)

----------------------------------------------------------------------------
(* JSON.parse and JSON.stringify of the JavaScript runtime.  Numbers are    *)
(* integers; the texts of the model have no \b, \f or \u escapes.          *)

JsonWhiteSpace == {" ", "\t", "\n", "\r"}

RECURSIVE SkipWs(_)
SkipWs(s) == IF s # <<>> /\ Head(s) \in JsonWhiteSpace THEN SkipWs(Tail(s)) ELSE s

JFail == [ok |-> FALSE, v |-> Undefined, rest |-> <<>>]
JOk(v, rest) == [ok |-> TRUE, v |-> v, rest |-> rest]

StartsWith(s, w) == Len(s) >= Len(w) /\ SubSeq(s, 1, Len(w)) = w
Drop(s, j) == SubSeq(s, j + 1, Len(s))

Unescape(c) == CASE c = "n" -> "\n" [] c = "t" -> "\t" [] c = "r" -> "\r" [] OTHER -> c

\* the characters of a string literal after its opening quote
RECURSIVE JStringBody(_, _)
JStringBody(s, acc) ==
    IF s = <<>> THEN JFail
    ELSE IF Head(s) = "\"" THEN JOk(Str(acc), Tail(s))
    ELSE IF Head(s) = "\\"
         THEN IF Len(s) >= 2 /\ s[2] \in {"\"", "\\", "/", "n", "t", "r"}
              THEN JStringBody(Drop(s, 2), Append(acc, Unescape(s[2])))
              ELSE JFail
    ELSE IF Head(s) \in {"\t", "\n", "\r"} THEN JFail
    ELSE JStringBody(Tail(s), Append(acc, Head(s)))

\* -? (0 | [1-9][0-9]*)
RECURSIVE JDigits(_, _)
JDigits(s, acc) ==
    IF s # <<>> /\ Head(s) \in DigitChars
    THEN JDigits(Tail(s), acc * 10 + DigitVal(Head(s)))
    ELSE JOk(Num(acc), s)

JNumberSigned(neg, d) ==
    IF d = <<>> \/ Head(d) \notin DigitChars THEN JFail
    ELSE IF Head(d) = "0" THEN JOk(Num(0), Tail(d))
    ELSE IF neg THEN JOk(Num(0 - JDigits(d, 0).v.n), JDigits(d, 0).rest)
    ELSE JDigits(d, 0)

JNumber(s) == JNumberSigned(Head(s) = "-", IF Head(s) = "-" THEN Tail(s) ELSE s)

RECURSIVE JValue(_)
RECURSIVE JElements(_, _, _)
RECURSIVE JMembers(_, _, _)

\* after an element and the white space behind it: a comma or "]"
JElementsNext(s, acc) ==
    IF s = <<>> THEN JFail
    ELSE IF Head(s) = "," THEN JElements(Tail(s), acc, FALSE)
    ELSE IF Head(s) = "]" THEN JOk(Arr(acc), Tail(s))
    ELSE JFail

JElementsValue(r, acc) ==
    IF ~r.ok THEN JFail ELSE JElementsNext(SkipWs(r.rest), Append(acc, r.v))

JElementsAt(s, acc, first) ==
    IF s # <<>> /\ Head(s) = "]" /\ first THEN JOk(Arr(acc), Tail(s))
    ELSE JElementsValue(JValue(s), acc)

\* after "[" (first) or after a comma: the elements up to "]"
JElements(s, acc, first) == JElementsAt(SkipWs(s), acc, first)

\* after a member and the white space behind it: a comma or "}"
JMembersNext(s, acc) ==
    IF s = <<>> THEN JFail
    ELSE IF Head(s) = "," THEN JMembers(Tail(s), acc, FALSE)
    ELSE IF Head(s) = "}" THEN JOk(acc, Tail(s))
    ELSE JFail

JMembersValue(key, r, acc) ==
    IF ~r.ok THEN JFail ELSE JMembersNext(SkipWs(r.rest), SetMember(acc, key, r.v))

JMembersColon(key, s, acc) ==
    IF s = <<>> \/ Head(s) # ":" THEN JFail
    ELSE JMembersValue(key, JValue(Tail(s)), acc)

JMembersKey(key, acc) ==
    IF ~key.ok THEN JFail ELSE JMembersColon(key.v.s, SkipWs(key.rest), acc)

JMembersAt(s, acc, first) ==
    IF s # <<>> /\ Head(s) = "}" /\ first THEN JOk(acc, Tail(s))
    ELSE IF s = <<>> \/ Head(s) # "\"" THEN JFail
    ELSE JMembersKey(JStringBody(Tail(s), <<>>), acc)

\* after "{" (first) or after a comma: the members up to "}"
JMembers(s, acc, first) == JMembersAt(SkipWs(s), acc, first)

JValueAt(s) ==
    IF s = <<>> THEN JFail
    ELSE CASE Head(s) = "\"" -> JStringBody(Tail(s), <<>>)
           [] Head(s) = "{" -> JMembers(Tail(s), Obj(<<>>), TRUE)
           [] Head(s) = "[" -> JElements(Tail(s), <<>>, TRUE)
           [] StartsWith(s, <<"t", "r", "u", "e">>) -> JOk(Bool(TRUE), Drop(s, 4))
           [] StartsWith(s, <<"f", "a", "l", "s", "e">>) -> JOk(Bool(FALSE), Drop(s, 5))
           [] StartsWith(s, <<"n", "u", "l", "l">>) -> JOk(Null, Drop(s, 4))
           [] Head(s) \in DigitChars \cup {"-"} -> JNumber(s)
           [] OTHER -> JFail

JValue(s) == JValueAt(SkipWs(s))

\* nothing but white space may follow the value
JWhole(r) == IF r.ok /\ SkipWs(r.rest) = <<>> THEN r ELSE JFail

\* JSON.parse(text): ok with the value, or not ok where it throws a SyntaxError
JSONParse(text) == JWhole(JValue(text))

RECURSIVE Escape(_)
Escape(s) ==
    IF s = <<>> THEN <<>>
    ELSE (CASE Head(s) = "\"" -> <<"\\", "\"">>
            [] Head(s) = "\\" -> <<"\\", "\\">>
            [] Head(s) = "\n" -> <<"\\", "n">>
            [] Head(s) = "\t" -> <<"\\", "t">>
            [] Head(s) = "\r" -> <<"\\", "r">>
            [] OTHER -> <<Head(s)>>) \o Escape(Tail(s))

Quoted(s) == <<"\"">> \o Escape(s) \o <<"\"">>

\* JSON.stringify(v) with no indent
RECURSIVE JSONStringify(_)
RECURSIVE StringifyItems(_, _)
StringifyItems(items, keyed) ==
    IF items = <<>> THEN <<>>
    ELSE (IF keyed THEN Quoted(Head(items).k) \o <<":">> ELSE <<>>)
         \o JSONStringify(Entry(<<>>, Head(items)))
         \o (IF Len(items) > 1 THEN <<",">> ELSE <<>>)
         \o StringifyItems(Tail(items), keyed)

JSONStringify(v) ==
    CASE v.t = "str" -> Quoted(v.s)
      [] v.t = "num" -> toString(v)
      [] v.t = "bool" -> IF v.n = 1 THEN <<"t", "r", "u", "e">>
                                    ELSE <<"f", "a", "l", "s", "e">>
      [] v.t = "arr" -> <<"[">> \o StringifyItems(v.items, FALSE) \o <<"]">>
      [] v.t = "obj" -> <<"{">> \o StringifyItems(v.items, TRUE) \o <<"}">>
      [] OTHER -> <<"n", "u", "l", "l">>

----------------------------------------------------------------------------
(* Outcomes.  A transformer of `transform` returns a value or throws a     *)
(* ZodError; a zod schema's _parse is valid, or invalid with issues added  *)
(* to the parse context, or is left by an exception thrown in a transform. *)

Issue(path, code, received) == [path |-> path, code |-> code, received |-> received]

Ok(v) == [status |-> "valid", value |-> v, issues |-> {}]
Invalid(issues) == [status |-> "invalid", value |-> Undefined, issues |-> issues]
Throw(issues) == [status |-> "throw", value |-> Undefined, issues |-> issues]

----------------------------------------------------------------------------
(* zod validators called with .parse() inside the transformers: a failing  *)
(* .parse() throws a ZodError whose issues have the empty path             *)

PortMin == 0
PortMax == 65536

\* z.number().parse(v)
ZodNumberParse(v) ==
    IF v.t = "num" THEN Ok(v)
    ELSE Throw({Issue(<<>>, "invalid_type", TypeOf(v))})

\* z.number().min(0).max(65536).parse(v)
ZodPortParse(v) ==
    IF v.t # "num" THEN Throw({Issue(<<>>, "invalid_type", TypeOf(v))})
    ELSE IF v.n < PortMin THEN Throw({Issue(<<>>, "too_small", "number")})
    ELSE IF v.n > PortMax THEN Throw({Issue(<<>>, "too_big", "number")})
    ELSE Ok(v)

\* z.string().parse(v)
ZodStringParse(v) ==
    IF v.t = "str" THEN Ok(v)
    ELSE Throw({Issue(<<>>, "invalid_type", TypeOf(v))})

LocalChars == LetterChars \cup DigitChars \cup {"_", "+", "-", "."}
LabelChars == LetterChars \cup DigitChars \cup {"-"}

HasDoubleDot(s) == \E i \in 1..(Len(s) - 1) : s[i] = "." /\ s[i + 1] = "."

\* the pattern behind z.string().email():
\* ^(?!\.)(?!.*\.\.)([A-Z0-9_+-\.]*)[A-Z0-9_+-]@([A-Z0-9][A-Z0-9\-]*\.)+[A-Z]{2,}$  (i)
IsEmail(s) ==
    /\ s # <<>>
    /\ Head(s) # "."
    /\ ~HasDoubleDot(s)
    /\ \E at \in 1..Len(s) :
         /\ s[at] = "@"
         /\ at >= 2
         /\ \A i \in 1..(at - 1) : s[i] \in LocalChars
         /\ s[at - 1] # "."
         /\ LET labels == Split(SubSeq(s, at + 1, Len(s)), ".")
                k == Len(labels)
            IN  /\ k >= 2
                /\ \A j \in 1..(k - 1) :
                     /\ labels[j] # <<>>
                     /\ labels[j][1] \in LetterChars \cup DigitChars
                     /\ \A i \in 1..Len(labels[j]) : labels[j][i] \in LabelChars
                /\ Len(labels[k]) >= 2
                /\ \A i \in 1..Len(labels[k]) : labels[k][i] \in LetterChars

\* z.string().email().parse(v)
ZodEmailParse(v) ==
    IF v.t # "str" THEN Throw({Issue(<<>>, "invalid_type", TypeOf(v))})
    ELSE IF ~IsEmail(v.s) THEN Throw({Issue(<<>>, "invalid_string", "string")})
    ELSE Ok(v)

----------------------------------------------------------------------------
(* src/main.ts: cleanStringArray and the functions of `transform` *)

\* the pieces trimmed before the quotes are taken out
cleanStringArrayTrimFirst(value) ==
    LET pieces == Split(value, ",")
    IN  [i \in 1..Len(pieces) |-> ReplaceAll(Trim(pieces[i]), "\"")]

cleanStringArray(value) ==
    LET pieces == Split(value, ",")
    IN  [i \in 1..Len(pieces) |-> Trim(ReplaceAll(pieces[i], "\""))]

\* Array.prototype.map with a callback that may throw: the first throw leaves
\* the map; elem names the zod validator the callback calls
ElemParse(elem, piece) ==
    CASE elem = "email" -> ZodEmailParse(Str(piece))
      [] elem = "string" -> ZodStringParse(Str(piece))
      [] OTHER -> ZodNumberParse(Str(piece))

RECURSIVE MapParse(_, _, _)
MapParse(elem, pieces, done) ==
    IF pieces = <<>> THEN Ok(Arr(done))
    ELSE LET r == ElemParse(elem, Head(pieces))
         IN  IF r.status # "valid" THEN r
             ELSE MapParse(elem, Tail(pieces), Append(done, r.value))

transform_emailArray(value) == MapParse("email", cleanStringArray(value.s), <<>>)
transform_stringArray(value) == MapParse("string", cleanStringArray(value.s), <<>>)
transform_numberArray(value) == MapParse("number", cleanStringArray(value.s), <<>>)

\* value === "true"
transform_boolean(value) == Ok(Bool(value = Str(<<"t", "r", "u", "e">>)))

transform_integer(value) == ZodNumberParse(ParseInt(toString(value)))

transform_port(value) == ZodPortParse(ParseInt(toString(value)))

transform_email(value) == ZodEmailParse(value)

----------------------------------------------------------------------------
(* The shapes given to schema.json and to nested objects.  A kind that     *)
(* takes a shape names it: ShapeOf gives the shape of such a kind.         *)

\* a required field of a nested shape
NField(name, kind) ==
    [name |-> name, kind |-> kind, optional |-> FALSE,
     hasDefault |-> FALSE, default |-> Undefined]

JsonKinds == {"jsonUser", "jsonTree"}
ObjectKinds == {"objectK"}

\* json({ NAME: string(), AGE: integer(), EMAIL: email() })
ShapeUser == <<NField("NAME", "string"), NField("AGE", "integer"),
               NField("EMAIL", "email")>>

\* object({ l: literal })
ShapeK == <<NField("l", "oneOf")>>

\* json({ h: literal, i: array(number()), k: object({ l: literal }) })
ShapeTree == <<NField("h", "oneOf"), NField("i", "array"), NField("k", "objectK")>>

ShapeOf(kind) ==
    CASE kind = "jsonUser" -> ShapeUser
      [] kind = "jsonTree" -> ShapeTree
      [] OTHER -> ShapeK

\* the literals of the union that oneOf builds
OneOfLiterals == {<<"b", "a", "r">>, <<"b", "a", "z">>}

\* the property names of the model and their characters
JsonNames == <<"NAME", "AGE", "EMAIL", "h", "i", "k", "l", "X">>
JsonNameChars == << <<"N", "A", "M", "E">>, <<"A", "G", "E">>,
                    <<"E", "M", "A", "I", "L">>, <<"h">>, <<"i">>, <<"k">>,
                    <<"l">>, <<"X">> >>

NameOf(chars) ==
    IF \E j \in 1..Len(JsonNames) : JsonNameChars[j] = chars
    THEN JsonNames[CHOOSE j \in 1..Len(JsonNames) : JsonNameChars[j] = chars]
    ELSE ""

CharsOf(name) ==
    IF \E j \in 1..Len(JsonNames) : JsonNames[j] = name
    THEN JsonNameChars[CHOOSE j \in 1..Len(JsonNames) : JsonNames[j] = name]
    ELSE <<>>

RECURSIVE transform_json(_, _)
RECURSIVE ZodObjectParse(_, _, _)

Transform(kind, value) ==
    CASE kind = "emailArray" -> transform_emailArray(value)
      [] kind \in JsonKinds -> transform_json(ShapeOf(kind), value)
      [] kind = "stringArray" -> transform_stringArray(value)
      [] kind = "numberArray" -> transform_numberArray(value)
      [] kind = "boolean" -> transform_boolean(value)
      [] kind = "integer" -> transform_integer(value)
      [] kind = "port" -> transform_port(value)
      [] kind = "email" -> transform_email(value)
      [] OTHER -> Ok(value)

----------------------------------------------------------------------------
(* src/main.ts: the field schemas of `schema`.  A field schema is          *)
(* [name, kind, optional, hasDefault, default]: schema.<kind>() followed   *)
(* by nothing, .optional(), .default(d) or .optional().default(d).         *)

StringOrNumberKinds == {"integer", "port"}

\* schema.boolean() built as a string transformer, without the literal union
SchemaBaseNoLiteral(kind, data, path) ==
    CASE kind \in StringOrNumberKinds ->
           IF data.t \in {"str", "num"}
           THEN Ok(data)
           ELSE Invalid({Issue(path, "invalid_union", TypeOf(data))})
      [] OTHER ->
           IF data.t = "str"
           THEN Ok(data)
           ELSE Invalid({Issue(path, "invalid_type", TypeOf(data))})

\* the zod type in front of the transform: z.string, z.string().or(z.number()),
\* or the union of the literals "true" and "false"
SchemaBase(kind, data, path) ==
    CASE kind = "oneOf" ->
           IF data.t = "str" /\ data.s \in OneOfLiterals
           THEN Ok(data)
           ELSE Invalid({Issue(path, "invalid_union", TypeOf(data))})
      [] kind = "array" ->
           IF data.t # "arr"
           THEN Invalid({Issue(path, "invalid_type", TypeOf(data))})
           ELSE LET bad == {j \in 1..Len(data.items) : data.items[j].t # "num"}
                IN  IF bad = {} THEN Ok(data)
                    ELSE Invalid({Issue(Append(path, DigitChar(j - 1)), "invalid_type",
                                        TypeOf(data.items[j])) : j \in bad})
      [] kind \in ObjectKinds -> ZodObjectParse(ShapeOf(kind), data, path)
      [] kind = "boolean" ->
           IF data \in {Str(<<"t", "r", "u", "e">>), Str(<<"f", "a", "l", "s", "e">>)}
           THEN Ok(data)
           ELSE Invalid({Issue(path, "invalid_union", TypeOf(data))})
      [] kind \in StringOrNumberKinds ->
           IF data.t \in {"str", "num"}
           THEN Ok(data)
           ELSE Invalid({Issue(path, "invalid_union", TypeOf(data))})
      [] OTHER ->
           IF data.t = "str"
           THEN Ok(data)
           ELSE Invalid({Issue(path, "invalid_type", TypeOf(data))})

\* does the schema run a transformer of `transform` on a valid base value
HasTransform(kind) == kind \notin {"string", "oneOf", "array"} \cup ObjectKinds

\* base.transform(transformer): the transformer runs on a valid base value
\* only, and what it throws is not caught
EffectsParse(kind, data, path) ==
    LET base == SchemaBase(kind, data, path)
    IN  IF base.status = "valid" /\ HasTransform(kind)
        THEN Transform(kind, data)
        ELSE base

\* a default that replaces the input whether or not the input has the key
DefaultSubstituteAlways(f, input) ==
    IF f.hasDefault THEN f.default ELSE input

\* .default(d): the default replaces an undefined input before the inner parse
DefaultSubstitute(f, input) ==
    IF f.hasDefault /\ input.t = "undef" THEN f.default ELSE input

\* .optional(): undefined is valid and stays undefined
FieldParse(f, input) ==
    LET data == DefaultSubstitute(f, input)
    IN  IF f.optional /\ data.t = "undef"
        THEN Ok(Undefined)
        ELSE EffectsParse(f.kind, data, <<f.name>>)

RECURSIVE NestedCalls(_, _)

\* how many transformers FieldParse enters: the field's own and, under json,
\* those of the nested shape
FieldCalls(f, input) ==
    LET data == DefaultSubstitute(f, input)
    IN  IF /\ ~(f.optional /\ data.t = "undef")
           /\ HasTransform(f.kind)
           /\ SchemaBase(f.kind, data, <<f.name>>).status = "valid"
        THEN 1 + NestedCalls(f.kind, data) ELSE 0

----------------------------------------------------------------------------
(* schema.config = z.object, and the parse of the object schema *)

EmptyObject == [k \in {} |-> Undefined]

Lookup(obj, key) == IF key \in DOMAIN obj THEN obj[key] ELSE Undefined

WithKey(obj, key, value) ==
    [k \in (DOMAIN obj) \cup {key} |-> IF k = key THEN value ELSE obj[k]]

DeclaredKeys(shape) == {shape[i].name : i \in 1..Len(shape)}

\* z.object(shape).strict()
unknownKeysStrict == "strict"

\* z.object(shape) keeps the default policy for keys outside the shape
unknownKeys == "strip"

\* every key of the shape enters the result
KeyIsSetAlways(input, key, value) == TRUE

\* a key enters the result when its value is not undefined or the input has it
KeyIsSet(input, key, value) == value.t # "undef" \/ key \in DOMAIN input

\* the keys outside the shape, handled after the declared ones
ExtraKeysResult(shape, input, obj, issues) ==
    LET extra == (DOMAIN input) \ DeclaredKeys(shape)
    IN  CASE unknownKeys = "passthrough" ->
               [obj |-> [k \in (DOMAIN obj) \cup extra |->
                            IF k \in extra THEN input[k] ELSE obj[k]],
                issues |-> issues]
          [] unknownKeys = "strict" /\ extra # {} ->
               [obj |-> obj,
                issues |-> issues \cup {Issue(<<>>, "unrecognized_keys", "object")}]
          [] OTHER -> [obj |-> obj, issues |-> issues]

\* the shape's keys in order; an exception thrown by a field's transformer
\* leaves the loop with the issues of that exception only
RECURSIVE ParseFields(_, _, _, _, _, _)
ParseFields(shape, input, i, obj, issues, n) ==
    IF i > Len(shape)
    THEN LET fin == ExtraKeysResult(shape, input, obj, issues)
         IN  IF fin.issues = {}
             THEN [status |-> "valid", value |-> fin.obj, issues |-> {}, calls |-> n]
             ELSE [status |-> "invalid", value |-> EmptyObject,
                   issues |-> fin.issues, calls |-> n]
    ELSE LET f == shape[i]
             in == Lookup(input, f.name)
             r == FieldParse(f, in)
             m == n + FieldCalls(f, in)
         IN  IF r.status = "throw"
             THEN [status |-> "throw", value |-> EmptyObject,
                   issues |-> r.issues, calls |-> m]
             ELSE ParseFields(shape, input, i + 1,
                      IF r.status = "valid" /\ KeyIsSet(input, f.name, r.value)
                      THEN WithKey(obj, f.name, r.value)
                      ELSE obj,
                      issues \cup r.issues, m)

\* schema.parse(env): the object, or a thrown ZodError
SchemaParse(shape, input) == ParseFields(shape, input, 1, EmptyObject, {}, 0)

\* a parsed JSON object as the input mapping of an object schema, and back
ObjToFun(o) == [name \in {NameOf(key) : key \in Keys(o)} |-> Member(o, CharsOf(name))]

RECURSIVE EntriesOf(_, _)
EntriesOf(names, f) ==
    IF names = <<>> THEN <<>>
    ELSE (IF Head(names) \in DOMAIN f
          THEN <<Entry(CharsOf(Head(names)), f[Head(names)])>> ELSE <<>>)
         \o EntriesOf(Tail(names), f)

FunToObj(f) == Obj(EntriesOf(JsonNames, f))

\* z.object(shape) on a value inside a parse: the issues of its fields carry
\* the path of the object in front of their own
ZodObjectResult(r, path) ==
    CASE r.status = "valid" -> Ok(FunToObj(r.value))
      [] r.status = "invalid" ->
           Invalid({Issue(path \o e.path, e.code, e.received) : e \in r.issues})
      [] OTHER -> Throw(r.issues)

ZodObjectParse(shape, v, path) ==
    IF v.t # "obj" THEN Invalid({Issue(path, "invalid_type", TypeOf(v))})
    ELSE ZodObjectResult(SchemaParse(shape, ObjToFun(v)), path)

\* JSON.parse(value) of transform.json: what it throws is a SyntaxError, no
\* ZodError; it is recorded as one entry with the code "SyntaxError"
JsonSyntaxError == Throw({Issue(<<>>, "SyntaxError", "string")})

\* .parse() returns the value or throws the ZodError with the issues
ParseOrThrow(r) == IF r.status = "invalid" THEN Throw(r.issues) ELSE r

transform_jsonParsed(shape, j) ==
    IF ~j.ok THEN JsonSyntaxError ELSE ParseOrThrow(ZodObjectParse(shape, j.v, <<>>))

\* a transformer that returns JSON.parse(value) as it is
transform_jsonUnchecked(shape, value) ==
    IF ~JSONParse(value.s).ok THEN JsonSyntaxError ELSE Ok(JSONParse(value.s).v)

\* the transformer that transform.json(shape) returns:
\* z.object(shape).parse(JSON.parse(value))
transform_json(shape, value) == transform_jsonParsed(shape, JSONParse(value.s))

\* the transformer calls that the nested schema of a json field makes
NestedCallsOf(kind, j) ==
    IF j.ok /\ j.v.t = "obj"
    THEN SchemaParse(ShapeOf(kind), ObjToFun(j.v)).calls
    ELSE 0

NestedCalls(kind, data) ==
    IF kind \in JsonKinds THEN NestedCallsOf(kind, JSONParse(data.s)) ELSE 0

\* a getter that runs the boolean transformer on the stored value again
envGetterRecoerce(parsed, key) == transform_boolean(Lookup(parsed, key)).value

\* the getter that parse returns: (key) => parsedEnv[key]
envGetter(parsed, key) == Lookup(parsed, key)

----------------------------------------------------------------------------
(* The schemas and inputs of the model *)

FieldNames == <<"PORT", "ENABLE_FEATURE", "BROWSER", "SMTP_HOST">>
ExtraKeys == {"ARRAY_OF_VALUES"}

sTrue == <<"t", "r", "u", "e">>
sFalse == <<"f", "a", "l", "s", "e">>
s465 == <<"4", "6", "5">>
s70000 == <<"7", "0", "0", "0", "0">>
sEmail == <<"a", "@", "b", ".", "c", "o">>
sEmailThenWord == <<"a", "@", "b", ".", "c", "o", ",", "x">>

EngineKinds == {"string", "boolean", "port", "emailArray"}

\* nothing, .optional(), .optional().default("false"), .default(true)
Modifiers ==
    { [optional |-> FALSE, hasDefault |-> FALSE, default |-> Undefined],
      [optional |-> TRUE, hasDefault |-> FALSE, default |-> Undefined],
      [optional |-> TRUE, hasDefault |-> TRUE, default |-> Str(sFalse)],
      [optional |-> FALSE, hasDefault |-> TRUE, default |-> Bool(TRUE)] }

\* the raw strings an input may carry for a field of a kind: one the field
\* accepts and, where there is one, one it rejects
EnvRaws(kind) ==
    CASE kind = "boolean" -> {Str(sTrue), Str(s465)}
      [] kind = "port" -> {Str(s465), Str(s70000)}
      [] kind = "emailArray" -> {Str(sEmail), Str(sEmailThenWord)}
      [] OTHER -> {Str(s465)}

Field(i, kind, mod) ==
    [name |-> FieldNames[i], kind |-> kind, optional |-> mod.optional,
     hasDefault |-> mod.hasDefault, default |-> mod.default]

Schemas ==
    UNION { { [i \in 1..n |-> Field(i, c[i][1], c[i][2])] :
                c \in [1..n -> EngineKinds \X Modifiers] } : n \in 1..MaxFields }

\* the inputs over the first i fields of the shape: each key absent or present
RECURSIVE EnvsUpTo(_, _)
EnvsUpTo(shape, i) ==
    IF i = 0 THEN {EmptyObject}
    ELSE LET rest == EnvsUpTo(shape, i - 1)
         IN  rest \cup { WithKey(e, shape[i].name, v) :
                            e \in rest, v \in EnvRaws(shape[i].kind) }

\* with or without keys that the shape does not declare
Envs(shape) ==
    LET declared == EnvsUpTo(shape, Len(shape))
    IN  { [k \in (DOMAIN e) \cup X |-> IF k \in X THEN Str(sEmailThenWord) ELSE e[k]] :
            e \in declared, X \in SUBSET ExtraKeys }

----------------------------------------------------------------------------
(* parse(schema, env) and the getter it returns *)

Init ==
    /\ schema \in Schemas
    /\ env \in Envs(schema)
    /\ pc = "start"
    /\ parsedEnv = EmptyObject
    /\ thrown = {}
    /\ calls = 0
    /\ lastKey = ""
    /\ got = Undefined
    /\ tKind = "string"
    /\ tRaw = Undefined
    /\ tVia = "none"
    /\ tOut = Ok(Undefined)

\* const parsedEnv = schema.parse(env); return [parsedEnv, getter]
Parse ==
    /\ pc = "start"
    /\ LET r == SchemaParse(schema, env)
       IN  /\ pc' = IF r.status = "valid" THEN "parsed" ELSE "failed"
           /\ parsedEnv' = r.value
           /\ thrown' = r.issues
           /\ calls' = r.calls
    /\ UNCHANGED <<schema, env, lastKey, got, tKind, tRaw, tVia, tOut>>

\* env(key) on the getter of a successful parse
Get(key) ==
    /\ pc \in {"parsed", "got"}
    /\ pc' = "got"
    /\ lastKey' = key
    /\ got' = envGetter(parsedEnv, key)
    /\ UNCHANGED <<schema, env, parsedEnv, thrown, calls, tKind, tRaw, tVia, tOut>>

Next ==
    \/ Parse
    \/ \E key \in DeclaredKeys(schema) : Get(key)

Spec == Init /\ [][Next]_vars

----------------------------------------------------------------------------
(* A transformer, or the field schema built on it, applied to one raw value *)

TKinds == {"string", "boolean", "integer", "port", "email",
           "emailArray", "stringArray", "numberArray"}

Alphabet == {"t", "e", "0", "6", "-", ",", " ", "\"", "x"}

RECURSIVE StringsUpTo(_)
StringsUpTo(k) ==
    IF k = 0 THEN {<<>>}
    ELSE LET shorter == StringsUpTo(k - 1)
         IN  shorter \cup {Append(w, c) : w \in shorter, c \in Alphabet}

LongerStrings ==
    { sTrue, sFalse, s465, s70000, sEmail, sEmailThenWord,
      <<"T", "R", "U", "E">>, <<"T", "r", "u", "e">>, <<"F", "a", "l", "s", "e">>,
      <<" ", "t", "r", "u", "e">>, <<"t", "r", "u", "e", " ">>,
      <<"f", "a", "l", "s", "e", " ">>, <<"1">>, <<"y", "e", "s">>,
      <<"6", "5", "5", "3", "5">>, <<"6", "5", "5", "3", "6">>,
      <<"6", "5", "5", "3", "7">>, <<"-", "4", "6", "5">>, <<"a", "b", "c">>,
      <<"4", "6", "5", "a", "b", "c">>, <<" ", "4", "6", "5">>,
      <<"3", "2", ",", "4", "2", ",", "5", "1", "2", "4">>,
      <<"4", "2", ",", "1", "7", ",", "4", "4">>,
      <<"4", "2", ",", " ", "\"", "1", "7", "\"", ",", "4", "4">> }

RawStrings == {Str(w) : w \in StringsUpTo(MaxLen) \cup LongerStrings}

RawNumbers == {Num(k) : k \in {-1, 0, 465, 65535, 65536, 65537, 70000}}

RawInputs(kind) ==
    IF kind \in StringOrNumberKinds THEN RawStrings \cup RawNumbers ELSE RawStrings

InitT ==
    /\ tKind \in TKinds
    /\ tRaw \in RawInputs(tKind)
    /\ tVia = "none"
    /\ tOut = Ok(Undefined)
    /\ schema = <<>>
    /\ env = EmptyObject
    /\ pc = "start"
    /\ parsedEnv = EmptyObject
    /\ thrown = {}
    /\ calls = 0
    /\ lastKey = ""
    /\ got = Undefined

\* transform.<kind>(raw)
ApplyTransform ==
    /\ HasTransform(tKind)
    /\ tVia' = "transform"
    /\ tOut' = Transform(tKind, tRaw)
    /\ UNCHANGED <<tKind, tRaw, schema, env, pc, parsedEnv, thrown, calls, lastKey, got>>

\* schema.<kind>().parse(raw)
ApplySchema ==
    /\ tVia' = "schema"
    /\ tOut' = EffectsParse(tKind, tRaw, <<>>)
    /\ UNCHANGED <<tKind, tRaw, schema, env, pc, parsedEnv, thrown, calls, lastKey, got>>

NextT == ApplyTransform \/ ApplySchema

SpecT == InitT /\ [][NextT]_vars

----------------------------------------------------------------------------
(* parse of a schema with one json field, USER, against texts that are the  *)
(* serialization of an object, a part of one, or no JSON object at all      *)

cUser(name, age, email) ==
    Obj(<<Entry(CharsOf("NAME"), name), Entry(CharsOf("AGE"), age),
          Entry(CharsOf("EMAIL"), email)>>)

cTree(h, i, k) ==
    Obj(<<Entry(CharsOf("h"), h), Entry(CharsOf("i"), i), Entry(CharsOf("k"), k)>>)

WithExtra(o) == SetMember(o, CharsOf("X"), Num(1))

RECURSIVE ArraysUpTo(_, _)
ArraysUpTo(elems, j) ==
    IF j = 0 THEN {<<>>}
    ELSE LET shorter == ArraysUpTo(elems, j - 1)
         IN  shorter \cup {Append(a, e) : a \in shorter, e \in elems}

UserValues ==
    LET plain == { cUser(name, age, email) :
                     name \in {Str(<<"J", "o">>), Str(<<"J", "\"", "\\">>),
                               Str(<<" ", "{", ",">>), Num(1)},
                     age \in {Num(30), Num(0), Num(-1), Str(<<"3", "0">>),
                              Str(<<"x">>), Null},
                     email \in {Str(sEmail), Str(<<"x">>)} }
    IN  plain \cup {WithExtra(o) : o \in plain}
              \cup {Obj(SubSeq(o.items, 1, 2)) : o \in plain}

TreeValues ==
    { cTree(h, Arr(i), k) :
        h \in {Str(<<"b", "a", "r">>), Str(<<"b", "a", "z">>), Str(<<"b", "o", "o">>)},
        i \in ArraysUpTo({Num(1), Num(23), Str(<<>>)}, MaxItems),
        k \in {Obj(<<Entry(CharsOf("l"), Str(<<"b", "a", "r">>))>>),
               Obj(<<Entry(CharsOf("l"), Num(1))>>),
               WithExtra(Obj(<<Entry(CharsOf("l"), Str(<<"b", "a", "z">>))>>)),
               Num(3)} }

JsonValues(kind) == IF kind = "jsonUser" THEN UserValues ELSE TreeValues

\* the serialization with white space around the members, as .env files and
\* the tests write it
StringifySpaced(o) ==
    <<"{", "\n", " ">>
    \o ( LET RECURSIVE Members(_)
             Members(items) ==
                 IF items = <<>> THEN <<>>
                 ELSE Quoted(Head(items).k) \o <<":", " ">>
                      \o JSONStringify(Entry(<<>>, Head(items)))
                      \o (IF Len(items) > 1 THEN <<",", "\n", " ">> ELSE <<>>)
                      \o Members(Tail(items))
         IN  Members(o.items) )
    \o <<"\n", "}", " ">>

Prefixes(text) == {SubSeq(text, 1, j) : j \in 0..(Len(text) - 1)}

\* texts that are no JSON object: the beginnings of two serializations, and
\* JSON values that are no object
BrokenTexts ==
    Prefixes(JSONStringify(cUser(Str(<<"J", "\"", "\\">>), Num(-1), Str(sEmail))))
    \cup Prefixes(StringifySpaced(
             cTree(Str(<<"b", "a", "r">>), Arr(<<Num(1), Num(23)>>),
                   Obj(<<Entry(CharsOf("l"), Str(<<"b", "a", "r">>))>>))))
    \cup { <<"3", "0">>, <<"n", "u", "l", "l">>, <<"[", "]">>, <<"{", "}">>,
           <<"{", "\"", "h", "\"", ":", "0", "1", "}">>,
           <<"{", "\"", "i", "\"", ":", "[", "1", ",", "]", "}">>,
           <<"{", "'", "h", "'", ":", "1", "}">> }

JsonTexts(kind) ==
    {JSONStringify(o) : o \in JsonValues(kind)}
    \cup {StringifySpaced(o) : o \in JsonValues(kind)}
    \cup BrokenTexts

InitJ ==
    /\ \E kind \in JsonKinds :
         /\ schema = <<NField("USER", kind)>>
         /\ \E text \in JsonTexts(kind) :
              env = [key \in {"USER"} |-> Str(text)]
    /\ pc = "start"
    /\ parsedEnv = EmptyObject
    /\ thrown = {}
    /\ calls = 0
    /\ lastKey = ""
    /\ got = Undefined
    /\ tKind = "string"
    /\ tRaw = Undefined
    /\ tVia = "none"
    /\ tOut = Ok(Undefined)

SpecJ == InitJ /\ [][Next]_vars

----------------------------------------------------------------------------
(* Properties of parse *)

Parsed == pc \in {"parsed", "got"}

Present(f) == f.name \in DOMAIN env

\* the issues of the thrown error that name the field
IssuesOn(f) == {e \in thrown : e.path = <<f.name>>}

\* the fields that are invalid on their own: missing and required, or rejected
InvalidFields ==
    {i \in 1..Len(schema) :
        FieldParse(schema[i], Lookup(env, schema[i].name)).status # "valid"}

\* C1: when two or more declared fields are invalid, the parse fails and the
\* one failure has an error for every one of them
C1_AllInvalidFieldsReported ==
    (pc # "start" /\ Cardinality(InvalidFields) >= 2) =>
        /\ pc = "failed"
        /\ \A i \in InvalidFields : IssuesOn(schema[i]) # {}

\* C2: a required field (not optional, no default) without a key in the input
\* makes the parse fail with a missing-field error that names that field
C2_MissingRequiredNamed ==
    pc # "start" =>
        \A i \in 1..Len(schema) :
            (~schema[i].optional /\ ~schema[i].hasDefault /\ ~Present(schema[i])) =>
                /\ pc = "failed"
                /\ \E e \in IssuesOn(schema[i]) : e.received = "undefined"

WithoutExtraKeys(input) ==
    [k \in (DOMAIN input) \cap DeclaredKeys(schema) |-> input[k]]

\* C3: the parse of an input has the outcome of the parse of the same input
\* without its undeclared keys, and the result has none of those keys
C3_ExtraKeysIgnored ==
    pc # "start" =>
        LET bare == SchemaParse(schema, WithoutExtraKeys(env))
        IN  /\ Parsed <=> (bare.status = "valid")
            /\ parsedEnv = bare.value
            /\ thrown = bare.issues
            /\ (DOMAIN parsedEnv) \cap ExtraKeys = {}

C3_Witness ==
    /\ pc = "parsed"
    /\ (DOMAIN env) \cap ExtraKeys # {}
    /\ parsedEnv # EmptyObject

\* C4: an optional field with no default and no key in the input gets no error
\* and no key in the result; only such fields and the empty input give {}
C4_OptionalAbsentOmitted ==
    pc # "start" =>
        /\ \A i \in 1..Len(schema) :
              (schema[i].optional /\ ~schema[i].hasDefault /\ ~Present(schema[i])) =>
                  /\ IssuesOn(schema[i]) = {}
                  /\ schema[i].name \notin DOMAIN parsedEnv
        /\ ( /\ env = EmptyObject
             /\ \A i \in 1..Len(schema) : schema[i].optional /\ ~schema[i].hasDefault )
           => (Parsed /\ parsedEnv = EmptyObject)

C4_Witness ==
    /\ pc = "parsed"
    /\ parsedEnv # EmptyObject
    /\ \E i \in 1..Len(schema) :
          /\ schema[i].optional /\ ~schema[i].hasDefault /\ ~Present(schema[i])
          /\ schema[i].name \notin DOMAIN parsedEnv

ReadmeSchema ==
    << [name |-> "PORT", kind |-> "port", optional |-> TRUE,
        hasDefault |-> FALSE, default |-> Undefined],
       [name |-> "ENABLE_FEATURE", kind |-> "boolean", optional |-> FALSE,
        hasDefault |-> TRUE, default |-> Bool(TRUE)] >>

\* C6: with the documented schema and an input without ENABLE_FEATURE (PORT
\* absent or valid) the parse succeeds, env("ENABLE_FEATURE") is a boolean and
\* env("PORT") is a number or undefined
C6_ReadmeExample ==
    ( /\ schema = ReadmeSchema
      /\ "ENABLE_FEATURE" \notin DOMAIN env
      /\ "PORT" \in DOMAIN env => env["PORT"] = Str(s465)
      /\ pc # "start" ) =>
        /\ Parsed
        /\ (pc = "got" /\ lastKey = "ENABLE_FEATURE") => got.t = "bool"
        /\ (pc = "got" /\ lastKey = "PORT") => got.t \in {"num", "undef"}

\* C7: a getter call returns the value stored under the key in the result
\* (undefined for an omitted key), changes neither the result nor the number
\* of transformer runs, and repeated for the same key returns the same value
C7_GetterReadsResult ==
    [][ pc' = "got" =>
          /\ got' = (IF lastKey' \in DOMAIN parsedEnv
                     THEN parsedEnv[lastKey'] ELSE Undefined)
          /\ parsedEnv' = parsedEnv
          /\ calls' = calls
          /\ (pc = "got" /\ lastKey' = lastKey) => got' = got ]_vars

C7_Witness ==
    /\ pc = "got"
    /\ lastKey \in DOMAIN parsedEnv
    /\ got = Bool(TRUE)
    /\ calls > 0

\* C9: a port field with a key in the input succeeds exactly when the integer
\* parsed from the value is in 0..65536, and then holds that integer; otherwise
\* the parse fails with an error on that field
C9_PortRangeOnField ==
    pc # "start" =>
        \A i \in 1..Len(schema) :
            LET f == schema[i]
                k == ParseInt(toString(env[f.name]))
            IN  (f.kind = "port" /\ Present(f)) =>
                  IF k.t = "num" /\ k.n >= 0 /\ k.n <= 65536
                  THEN /\ IssuesOn(f) = {}
                       /\ Parsed => (f.name \in DOMAIN parsedEnv /\ parsedEnv[f.name] = k)
                  ELSE /\ pc = "failed"
                       /\ IssuesOn(f) # {}

----------------------------------------------------------------------------
(* Properties of the transformers and field schemas *)

\* C8: the boolean field schema accepts exactly "true" and "false", gives true
\* for "true" and false for "false", and fails on every other string
C8_BooleanLiterals ==
    (tVia = "schema" /\ tKind = "boolean" /\ tRaw.t = "str") =>
        /\ (tOut.status = "valid") <=> (tRaw.s \in {sTrue, sFalse})
        /\ tRaw.s = sTrue => tOut.value = Bool(TRUE)
        /\ tRaw.s = sFalse => tOut.value = Bool(FALSE)
        /\ tRaw.s \notin {sTrue, sFalse} => tOut.status = "invalid"

C8_Witness ==
    /\ tVia = "schema"
    /\ tKind = "boolean"
    /\ tRaw = Str(<<"T", "R", "U", "E">>)
    /\ tOut.status = "invalid"

\* the port transformer alone: it returns exactly when the integer parsed from
\* the value is in 0..65536, then returns that integer, and throws otherwise
PortRangeOfTransformer ==
    (tVia # "none" /\ tKind = "port") =>
        LET k == ParseInt(toString(tRaw))
        IN  IF k.t = "num" /\ k.n >= 0 /\ k.n <= 65536
            THEN tOut = Ok(k)
            ELSE tOut.status = "throw"

\* does every piece of the string, trimmed and without quotes, read as a
\* base-10 number
RECURSIVE NatOf(_, _)
NatOf(digits, acc) ==
    IF digits = <<>> THEN acc
    ELSE NatOf(Tail(digits), acc * 10 + DigitVal(Head(digits)))

IsNumberList(chars) ==
    \A i \in 1..Len(cleanStringArray(chars)) :
        LET piece == cleanStringArray(chars)[i]
        IN  piece # <<>> /\ \A j \in 1..Len(piece) : piece[j] \in DigitChars

\* C10: numberArray on a comma-separated list of base-10 numbers succeeds with
\* the array of those numbers in order
C10_NumberArrayParses ==
    (tVia = "schema" /\ tKind = "numberArray" /\ IsNumberList(tRaw.s)) =>
        /\ tOut.status = "valid"
        /\ tOut.value =
              Arr([i \in 1..Len(cleanStringArray(tRaw.s)) |->
                      Num(NatOf(cleanStringArray(tRaw.s)[i], 0))])

\* the comma-separated segments of the raw string, and its commas
Segments == Split(tRaw.s, ",")
Commas == Cardinality({i \in 1..Len(tRaw.s) : tRaw.s[i] = ","})

\* what stringArray and emailArray return when the element transformer is
\* handed these pieces: every piece kept by stringArray, an exception of
\* emailArray unless every piece is an email address
ArrayOutcomeOf(pieces) ==
    /\ Len(pieces) = Commas + 1
    /\ tKind = "stringArray" =>
          tOut = Ok(Arr([i \in 1..Len(pieces) |-> Str(pieces[i])]))
    /\ tKind = "emailArray" =>
          IF \A i \in 1..Len(pieces) : IsEmail(pieces[i])
          THEN tOut = Ok(Arr([i \in 1..Len(pieces) |-> Str(pieces[i])]))
          ELSE tOut.status = "throw"

\* C13 as stated: the pieces are the segments in order, each trimmed and then
\* stripped of its double quotes, one more than there are commas, empty ones
\* kept by stringArray and rejected by emailArray
C13_TrimThenStrip ==
    (tVia # "none" /\ tKind \in {"stringArray", "emailArray"}) =>
        ArrayOutcomeOf([i \in 1..Len(Segments) |->
                          ReplaceAll(Trim(Segments[i]), "\"")])

\* C13 amended: the pieces are the segments in order, each stripped of its
\* double quotes and then trimmed, one more than there are commas, empty ones
\* kept by stringArray and rejected by emailArray
C13_StripThenTrim ==
    (tVia # "none" /\ tKind \in {"stringArray", "emailArray"}) =>
        ArrayOutcomeOf([i \in 1..Len(Segments) |->
                          Trim(ReplaceAll(Segments[i], "\""))])

C13_Witness ==
    /\ tVia = "schema"
    /\ tKind = "stringArray"
    /\ tRaw.s = <<"\"", " ", "t">>
    /\ tOut.value.items = <<Str(<<"t">>)>>

----------------------------------------------------------------------------
(* Properties of a json field *)

JsonField == schema[1]
JsonText == env[JsonField.name].s
JsonParsed == pc # "start" /\ JsonField.kind \in JsonKinds

\* structural equality: the same members whatever their order, the same
\* elements in order, the same primitive
RECURSIVE StructEq(_, _)
StructEq(a, b) ==
    CASE a.t = "obj" /\ b.t = "obj" ->
             /\ Keys(a) = Keys(b)
             /\ \A key \in Keys(a) : StructEq(Member(a, key), Member(b, key))
      [] a.t = "arr" /\ b.t = "arr" ->
             /\ Len(a.items) = Len(b.items)
             /\ \A i \in 1..Len(a.items) : StructEq(a.items[i], b.items[i])
      [] OTHER -> Entry(<<>>, a) = Entry(<<>>, b)

\* the value is one the nested schema accepts
Satisfies(shape, v) == ZodObjectParse(shape, v, <<>>).status = "valid"

\* the value has the declared keys only, and numbers in its integer fields
RECURSIVE Plain(_, _)
Plain(shape, v) ==
    /\ v.t = "obj"
    /\ Keys(v) \subseteq {CharsOf(shape[i].name) : i \in 1..Len(shape)}
    /\ \A i \in 1..Len(shape) :
         CharsOf(shape[i].name) \in Keys(v) =>
            LET m == Member(v, CharsOf(shape[i].name))
            IN  /\ shape[i].kind = "integer" => m.t = "num"
                /\ shape[i].kind \in ObjectKinds => Plain(ShapeOf(shape[i].kind), m)

\* the values of the field's nested schema that the text serializes
Serialized ==
    {v \in JsonValues(JsonField.kind) :
        JsonText \in {JSONStringify(v), StringifySpaced(v)}}

IsValidationFailure == \A e \in thrown : e.code # "SyntaxError"

\* the codes of the issues that a value of the wrong shape raises
MismatchCodes == {"invalid_type", "invalid_string", "invalid_union",
                  "invalid_literal", "custom"}

Malformed == ~JSONParse(JsonText).ok
Mismatch == JSONParse(JsonText).ok
            /\ ~Satisfies(ShapeOf(JsonField.kind), JSONParse(JsonText).v)

\* C12: a text that is no JSON, and a JSON value that the nested schema
\* rejects, both fail the parse with a validation failure of one issue that
\* names the json field, and the issue's detail tells the two apart
C12_JsonFailuresOnField ==
    (JsonParsed /\ (Malformed \/ Mismatch)) =>
        /\ pc = "failed"
        /\ IsValidationFailure
        /\ Cardinality(thrown) = 1
        /\ \A e \in thrown : e.path # <<>> /\ e.path[1] = JsonField.name
        /\ Malformed => \A e \in thrown : e.code \notin MismatchCodes
        /\ Mismatch => \A e \in thrown : e.code \in MismatchCodes

====
